---- MODULE Spec2Model ----
(***************************************************************************)
(* Skeleton-tree construction of the OpenAPI -> Postman converter          *)
(* (libV2/helpers/collection/generateSkeletionTreeFromOpenAPI.js).         *)
(*                                                                         *)
(* A string is a sequence of tokens.  The token alphabet is prefix-free    *)
(* (no token is a prefix of another), so two token sequences are equal     *)
(* exactly when the JavaScript strings they spell are equal: template      *)
(* strings are concatenations (\o), and two identifiers built from         *)
(* different parts can coincide the way they do in the program.            *)
(***************************************************************************)
EXTENDS Naturals, Sequences, FiniteSets

VARIABLES openapi, options, pc, i, j, k, tree, tagDescMap, outcome

vars == <<openapi, options, pc, i, j, k, tree, tagDescMap, outcome>>

-----------------------------------------------------------------------------
(* Bounds of the explored inputs.                                          *)

\* declared paths, and declared webhooks, per specification
MaxPaths == 2

\* keys (verbs and other keys) per path item or webhook item
MaxKeys == 2

\* declared tags per specification, and tags per operation
MaxTags == 2

-----------------------------------------------------------------------------
(* Strings.                                                                *)

Colon == <<":">>

Slash == <<"/">>

\* an optional value: <<>> is undefined, <<x>> is x
None == <<>>

Some(x) == <<x>>

RECURSIVE Join(_, _)
\* Array.prototype.join
Join(parts, sep) ==
  IF Len(parts) = 0 THEN <<>>
  ELSE IF Len(parts) = 1 THEN parts[1]
  ELSE parts[1] \o sep \o Join(Tail(parts), sep)

RECURSIVE SplitSlash(_)
\* String.prototype.split('/'): the pieces between the slashes, empty ones kept
SplitSlash(s) ==
  IF \A n \in 1..Len(s) : s[n] # "/" THEN <<s>>
  ELSE LET p == CHOOSE n \in 1..Len(s) : s[n] = "/" /\ \A q \in 1..(n - 1) : s[q] # "/"
       IN <<SubSeq(s, 1, p - 1)>> \o SplitSlash(SubSeq(s, p + 1, Len(s)))

\* _.compact on an array of strings: the empty strings are dropped
Compact(parts) == SelectSeq(parts, LAMBDA x : x # <<>>)

\* line 60: completePath === '/' ? [completePath] : _.compact(completePath.split('/'))
PathSplit(completePath) ==
  IF completePath = Slash THEN <<completePath>> ELSE Compact(SplitSlash(completePath))

\* pathSplit.slice(0, n).join('/')
PathIdentifierUpTo(pathSplit, n) == Join(SubSeq(pathSplit, 1, n), Slash)

-----------------------------------------------------------------------------
(* Node identifiers (the template strings of the source).                  *)

RootId == <<"root", ":", "collection">>

\* PATH_WEBHOOK = 'path~webhook'
PATH_WEBHOOK == <<"path", "~webhook">>

\* `path:folder:${pathIdentifier}`
PathFolderId(pathIdentifier) == <<"path", ":", "folder", ":">> \o pathIdentifier

\* `path:request:${pathIdentifier}:${method}`
PathRequestId(pathIdentifier, method) ==
  <<"path", ":", "request", ":">> \o pathIdentifier \o Colon \o method

\* `path:${tag}`
TagFolderId(tag) == <<"path", ":">> \o tag

\* `path:${tag}:${path}:${method}`
TagRequestId(tag, path, method) ==
  <<"path", ":">> \o tag \o Colon \o path \o Colon \o method

\* `path:${path}:${method}`
UntaggedRequestId(path, method) == <<"path", ":">> \o path \o Colon \o method

\* `${PATH_WEBHOOK}:folder`
WebhookFolderId == PATH_WEBHOOK \o <<":", "folder">>

\* `${PATH_WEBHOOK}:${path}:${method}`
WebhookRequestId(path, method) == PATH_WEBHOOK \o Colon \o path \o Colon \o method

-----------------------------------------------------------------------------
(* The node/edge store (graphlib's directed Graph, as the source uses it). *)
(* order: the node identifiers in insertion order; label: the record of    *)
(* each node; edges: the (parent, child) pairs in insertion order; calls:  *)
(* the setNode / setEdge calls made so far, in order.                      *)

\* new Graph()
NewGraph ==
  [order |-> <<>>, label |-> <<>>, edges |-> <<>>, calls |-> <<>>]

Range(s) == {s[n] : n \in 1..Len(s)}

\* the label of a node that setEdge had to create: undefined
NoLabel == [type |-> "undefined"]

\* tree.hasNode(v)
HasNode(t, v) == v \in Range(t.order)

\* tree.hasEdge(v, w)
HasEdge(t, v, w) == <<v, w>> \in Range(t.edges)

\* the position of node v in insertion order
IndexOf(t, v) == CHOOSE n \in 1..Len(t.order) : t.order[n] = v

\* the record of node v
Label(t, v) == t.label[IndexOf(t, v)]

\* a node is stored under its key: a new key is appended, an old key keeps its
\* place and takes the new record
PutNode(t, v, rec) ==
  IF HasNode(t, v)
  THEN [t EXCEPT !.label[IndexOf(t, v)] = rec]
  ELSE [t EXCEPT !.order = Append(@, v), !.label = Append(@, rec)]

\* tree.setNode(v, rec): creates the node or overwrites its record
SetNode(t, v, rec) ==
  [PutNode(t, v, rec) EXCEPT !.calls = Append(@, [op |-> "setNode", v |-> v, w |-> v])]

\* setEdge creates a missing end point, with no record
EnsureNode(t, v) == IF HasNode(t, v) THEN t ELSE PutNode(t, v, NoLabel)

\* tree.setEdge(v, w): a second call with the same pair adds nothing
SetEdge(t, v, w) ==
  LET t1 == EnsureNode(EnsureNode(t, v), w)
      t2 == IF HasEdge(t1, v, w) THEN t1 ELSE [t1 EXCEPT !.edges = Append(@, <<v, w>>)]
  IN [t2 EXCEPT !.calls = Append(@, [op |-> "setEdge", v |-> v, w |-> w])]

\* the graph without the call log: what the caller receives
View(t) == [order |-> t.order, label |-> t.label, edges |-> t.edges]

Nodes(t) == Range(t.order)

Edges(t) == Range(t.edges)

\* the parents of node v
InEdges(t, v) == {e \in Edges(t) : e[2] = v}

\* the node identifiers whose record has the given type
NodesOfType(t, type) == {v \in Nodes(t) : Label(t, v).type = type}

-----------------------------------------------------------------------------
(* Filters shared by the strategies.                                       *)

\* the own keys of ALLOWED_HTTP_METHODS (lines 5-15), each mapped to true
AllowedOwnKeys ==
  {<<"get">>, <<"head">>, <<"post">>, <<"put">>, <<"patch">>, <<"delete">>,
   <<"connect">>, <<"options">>, <<"trace">>}

\* ALLOWED_HTTP_METHODS and tagDescMap are object literals: a lookup of a key
\* they do not own falls through to Object.prototype, whose members
\* (constructor, toString, valueOf, hasOwnProperty, ...) are functions, hence
\* truthy.  The explored inputs use 'constructor' for these keys.
ObjectPrototypeKeys == {<<"constructor">>}

\* the value a lookup gives for a key inherited from Object.prototype
InheritedMember == <<"[native code]">>

\* ALLOWED_HTTP_METHODS[method] is truthy (lines 75, 124, 395)
IsAllowedMethod(method) == method \in AllowedOwnKeys \/ method \in ObjectPrototypeKeys

\* mutant of IsDeprecatedSkipped: the flag includeDeprecated is ignored
DeprecatedAlwaysSkipped(includeDeprecated, data) == data.deprecated

\* !includeDeprecated && data.deprecated (lines 83, 132, 403, 496)
IsDeprecatedSkipped(includeDeprecated, data) == ~includeDeprecated /\ data.deprecated

\* data.tags && data.tags.length > 0 (line 411)
HasTags(data) == data.tags # None /\ Len(data.tags[1]) > 0

-----------------------------------------------------------------------------
(* Node records.                                                           *)

\* lines 44-48, 363-367
RootRecord == [type |-> "collection", data |-> <<>>, meta |-> <<>>]

\* lines 88-96, 144-152, 177-185
PathFolderRecord(name, pathIdentifier) ==
  [type |-> "folder", data |-> <<>>,
   meta |-> [name |-> name, path |-> name, pathIdentifier |-> pathIdentifier]]

\* lines 101-109, 158-166
PathRequestRecord(completePath, method, pathIdentifier) ==
  [type |-> "request", data |-> <<>>,
   meta |-> [path |-> completePath, method |-> method, pathIdentifier |-> pathIdentifier]]

\* lines 380-388 (path is ''), 425-433 (path is the operation's path)
TagFolderRecord(path, tag, description) ==
  [type |-> "folder", data |-> <<>>,
   meta |-> [path |-> path, name |-> tag, description |-> description]]

\* lines 413-421
TagRequestRecord(tag, path, method) ==
  [type |-> "request", data |-> <<>>,
   meta |-> [tag |-> tag, path |-> path, method |-> method]]

\* lines 443-450
UntaggedRequestRecord(path, method) ==
  [type |-> "request", data |-> <<>>, meta |-> [path |-> path, method |-> method]]

\* lines 477-485
WebhookFolderRecord ==
  [type |-> "webhook~folder", data |-> <<>>,
   meta |-> [path |-> <<"webhook~folder">>, name |-> <<"webhook~folder">>,
             description |-> <<>>]]

\* lines 500-504
WebhookRequestRecord(path, method) ==
  [type |-> "webhook~request", data |-> <<>>, meta |-> [path |-> path, method |-> method]]

-----------------------------------------------------------------------------
(* The control state of one run: s is the record of pc, the loop indices   *)
(* i (path or webhook), k (segment or tag) and j (key of the item), the    *)
(* graph, tagDescMap and the outcome.                                       *)

\* the state before module.exports runs: `let skeletonTree;`
StartState ==
  [pc |-> "start", i |-> 0, j |-> 0, k |-> 0, tree |-> NewGraph,
   tagDescMap |-> <<>>, outcome |-> "none"]

\* openapi.webhooks as a list of entries; forEach over undefined visits nothing
WebhookEntries(o) == IF o.webhooks = None THEN <<>> ELSE o.webhooks[1]

\* openapi.tags as a list; reduce over undefined visits nothing
DeclaredTags(o) == IF o.tags = None THEN <<>> ELSE o.tags[1]

RECURSIVE OpPos(_, _, _)
\* the first (i, j) at or after the given one that names a key of an item of
\* the ordered mapping `items` (the nested forEach), or i past the end
OpPos(items, pi, pj) ==
  IF pi > Len(items) THEN [i |-> pi, j |-> 1]
  ELSE IF pj <= Len(items[pi].methods) THEN [i |-> pi, j |-> pj]
  ELSE OpPos(items, pi + 1, 1)

\* lines 537-541: after the base strategy, the augmenter or the return
AfterBase(opt, s) ==
  [s EXCEPT !.pc = IF opt.includeWebhooks THEN "webhookFolder" ELSE "return",
            !.i = 0, !.j = 0, !.k = 0]

\* lines 490-491 and 510: the next webhook key to visit, or the return
WebhookPos(o, s, pi, pj) ==
  LET p == OpPos(WebhookEntries(o), pi, pj)
  IN IF p.i > Len(WebhookEntries(o))
     THEN [s EXCEPT !.pc = "return", !.i = 0, !.j = 0, !.k = 0]
     ELSE [s EXCEPT !.pc = "webhookOps", !.i = p.i, !.j = p.j, !.k = 0]

-----------------------------------------------------------------------------
(* Path strategy: _generateTreeFromPathsV2, lines 38-197.                  *)

RECURSIVE PathPos(_, _, _, _, _, _)
\* lines 59-71, 116-123: the next iteration of the loops over paths, segments
\* and keys, at or after path pi, segment pk and key pj (all 1-based)
PathPos(o, opt, s, pi, pk, pj) ==
  IF pi > Len(o.paths) THEN AfterBase(opt, s)
  ELSE LET pathSplit == PathSplit(o.paths[pi].path)
           methods == o.paths[pi].methods
       IN IF Len(pathSplit) = 1
          THEN IF pj <= Len(methods)
               THEN [s EXCEPT !.pc = "single", !.i = pi, !.k = 1, !.j = pj]
               ELSE PathPos(o, opt, s, pi + 1, 1, 1)
          ELSE IF pk < Len(pathSplit)
               THEN [s EXCEPT !.pc = "segment", !.i = pi, !.k = pk, !.j = 1]
               ELSE IF pk = Len(pathSplit) /\ pj <= Len(methods)
                    THEN [s EXCEPT !.pc = "final", !.i = pi, !.k = pk, !.j = pj]
                    ELSE PathPos(o, opt, s, pi + 1, 1, 1)

\* mutant of FolderParent: every folder is attached to the root
FolderParentAlwaysRoot(index, previousPathIdentified) == RootId

\* lines 154, 173: index === 0 ? 'root:collection' : `path:folder:${previousPathIdentified}`
FolderParent(index, previousPathIdentified) ==
  IF index = 0 THEN RootId ELSE PathFolderId(previousPathIdentified)

\* lines 87-99: the base folder of a single-segment path
EnsureBaseFolder(t, segment) ==
  IF ~HasNode(t, PathFolderId(segment))
  THEN SetEdge(SetNode(t, PathFolderId(segment), PathFolderRecord(segment, segment)),
               RootId, PathFolderId(segment))
  ELSE t

\* lines 143-156: the folder of the whole path, at the final segment
EnsureFinalFolder(t, pathSplit, index) ==
  LET pathIdentifier == PathIdentifierUpTo(pathSplit, index + 1)
      previousPathIdentified == PathIdentifierUpTo(pathSplit, index)
  IN IF ~HasNode(t, PathFolderId(pathIdentifier))
     THEN SetEdge(SetNode(t, PathFolderId(pathIdentifier),
                          PathFolderRecord(pathSplit[index + 1], pathIdentifier)),
                  FolderParent(index, previousPathIdentified),
                  PathFolderId(pathIdentifier))
     ELSE t

\* lines 101-111, 158-168: the request node and its edge from the folder
AddPathRequest(t, completePath, pathIdentifier, method) ==
  SetEdge(SetNode(t, PathRequestId(pathIdentifier, method),
                  PathRequestRecord(completePath, method, pathIdentifier)),
          PathFolderId(pathIdentifier), PathRequestId(pathIdentifier, method))

\* lines 74-112: one key of the item of a single-segment path
SingleOpTree(t, includeDeprecated, completePath, entry) ==
  LET pathSplit == PathSplit(completePath)
  IN IF ~IsAllowedMethod(entry.method) THEN t
     ELSE IF IsDeprecatedSkipped(includeDeprecated, entry.data) THEN t
     ELSE AddPathRequest(EnsureBaseFolder(t, pathSplit[1]),
                         completePath, pathSplit[1], entry.method)

\* lines 123-169: one key of the item, at the final segment of a longer path
FinalOpTree(t, includeDeprecated, completePath, entry) ==
  LET pathSplit == PathSplit(completePath)
      index == Len(pathSplit) - 1
      pathIdentifier == PathIdentifierUpTo(pathSplit, index + 1)
  IN IF ~IsAllowedMethod(entry.method) THEN t
     ELSE IF IsDeprecatedSkipped(includeDeprecated, entry.data) THEN t
     ELSE AddPathRequest(EnsureFinalFolder(t, pathSplit, index),
                         completePath, pathIdentifier, entry.method)

\* lines 172-191: a segment that is not the last one (index is 0-based)
SegmentTree(t, pathSplit, index) ==
  LET previousPathIdentified == PathIdentifierUpTo(pathSplit, index)
      pathIdentifier == PathIdentifierUpTo(pathSplit, index + 1)
      fromNode == FolderParent(index, previousPathIdentified)
      toNode == PathFolderId(pathIdentifier)
      t1 == IF ~HasNode(t, toNode)
            THEN SetNode(t, toNode, PathFolderRecord(pathSplit[index + 1], pathIdentifier))
            ELSE t
  IN IF ~HasEdge(t1, fromNode, toNode) THEN SetEdge(t1, fromNode, toNode) ELSE t1

\* one iteration of the loop of line 74
StepSingle(o, opt, s) ==
  LET t == SingleOpTree(s.tree, opt.includeDeprecated, o.paths[s.i].path,
                        o.paths[s.i].methods[s.j])
  IN PathPos(o, opt, [s EXCEPT !.tree = t], s.i, 1, s.j + 1)

\* one iteration of the loop of line 116, at a segment that is not the last
StepSegment(o, opt, s) ==
  LET t == SegmentTree(s.tree, PathSplit(o.paths[s.i].path), s.k - 1)
  IN PathPos(o, opt, [s EXCEPT !.tree = t], s.i, s.k + 1, 1)

\* one iteration of the loop of line 123
StepFinal(o, opt, s) ==
  LET t == FinalOpTree(s.tree, opt.includeDeprecated, o.paths[s.i].path,
                       o.paths[s.i].methods[s.j])
  IN PathPos(o, opt, [s EXCEPT !.tree = t], s.i, s.k, s.j + 1)

\* lines 42-57 and 530: the root node, then the first path (none: line 56)
StartPaths(o, opt, s) ==
  PathPos(o, opt, [s EXCEPT !.tree = SetNode(NewGraph, RootId, RootRecord)], 1, 1, 1)

-----------------------------------------------------------------------------
(* Tag strategy: _generateTreeFromTags, lines 354-458.                     *)

\* a key is an array index (canonical non-negative integer): an object lists
\* such keys first, in ascending order, before its other keys
IsIndexKey(key) == key \in {<<"1">>, <<"2">>}

\* the number an index key spells
IndexValue(key) == IF key = <<"1">> THEN 1 ELSE 2

\* whether key a is listed before key b in an object that got a first
OwnKeyBefore(a, b) ==
  IF IsIndexKey(b) THEN IsIndexKey(a) /\ IndexValue(a) < IndexValue(b) ELSE TRUE

RECURSIVE InsertKey(_, _)
\* the entries of an object after a new key is assigned
InsertKey(map, entry) ==
  IF Len(map) = 0 THEN <<entry>>
  ELSE IF OwnKeyBefore(map[1].name, entry.name)
       THEN <<map[1]>> \o InsertKey(Tail(map), entry)
       ELSE <<entry>> \o map

\* acc[data.name] = data.description (line 358): an owned key keeps its place
\* and takes the new value
AssignKey(map, entry) ==
  IF \E n \in 1..Len(map) : map[n].name = entry.name
  THEN [n \in 1..Len(map) |->
          IF map[n].name = entry.name THEN entry ELSE map[n]]
  ELSE InsertKey(map, entry)

RECURSIVE ReduceTags(_, _)
\* lines 357-361: _.reduce(openapi.tags, ..., {})
ReduceTags(acc, tags) ==
  IF Len(tags) = 0 THEN acc ELSE ReduceTags(AssignKey(acc, tags[1]), Tail(tags))

\* tagDescMap[tag] (lines 385, 430)
TagDescription(map, tag) ==
  IF \E n \in 1..Len(map) : map[n].name = tag
  THEN (CHOOSE e \in Range(map) : e.name = tag).description
  ELSE IF tag \in ObjectPrototypeKeys THEN Some(InheritedMember) ELSE None

\* lines 373-390: the folder of one key of tagDescMap
TagFolderTree(t, map, tag) ==
  IF HasNode(t, TagFolderId(tag)) THEN t
  ELSE SetEdge(SetNode(t, TagFolderId(tag),
                       TagFolderRecord(<<>>, tag, TagDescription(map, tag))),
               RootId, TagFolderId(tag))

\* mutant of SafeguardFolder: the new folder is not attached to the root
SafeguardFolderDetached(t, map, tag, path) ==
  IF ~HasNode(t, TagFolderId(tag))
  THEN SetNode(t, TagFolderId(tag), TagFolderRecord(path, tag, TagDescription(map, tag)))
  ELSE t

\* lines 424-436: the folder of a tag no folder exists for
SafeguardFolder(t, map, tag, path) ==
  IF ~HasNode(t, TagFolderId(tag))
  THEN SetEdge(SetNode(t, TagFolderId(tag),
                       TagFolderRecord(path, tag, TagDescription(map, tag))),
               RootId, TagFolderId(tag))
  ELSE t

\* lines 413-438: the request node of one tag of the operation
TaggedRequestTree(t, map, tag, path, method) ==
  SetEdge(SafeguardFolder(SetNode(t, TagRequestId(tag, path, method),
                                  TagRequestRecord(tag, path, method)),
                          map, tag, path),
          TagFolderId(tag), TagRequestId(tag, path, method))

RECURSIVE TaggedRequestsTree(_, _, _, _, _)
\* line 412: _.forEach(data.tags, ...)
TaggedRequestsTree(t, map, tags, path, method) ==
  IF Len(tags) = 0 THEN t
  ELSE TaggedRequestsTree(TaggedRequestTree(t, map, tags[1], path, method),
                          map, Tail(tags), path, method)

\* lines 443-452: the request node of an operation without tags
UntaggedRequestTree(t, path, method) ==
  SetEdge(SetNode(t, UntaggedRequestId(path, method), UntaggedRequestRecord(path, method)),
          RootId, UntaggedRequestId(path, method))

\* lines 394-454: one key of one path item
TagOpTree(t, map, includeDeprecated, path, entry) ==
  IF ~IsAllowedMethod(entry.method) THEN t
  ELSE IF IsDeprecatedSkipped(includeDeprecated, entry.data) THEN t
  ELSE IF HasTags(entry.data)
       THEN TaggedRequestsTree(t, map, entry.data.tags[1], path, entry.method)
       ELSE UntaggedRequestTree(t, path, entry.method)

\* lines 393-394 and 457: the next key of the next path item, or the end
TagOpPos(o, opt, s, pi, pj) ==
  LET p == OpPos(o.paths, pi, pj)
  IN IF p.i > Len(o.paths) THEN AfterBase(opt, s)
     ELSE [s EXCEPT !.pc = "tagOps", !.i = p.i, !.j = p.j, !.k = 0]

\* line 372: the next key of tagDescMap, or the loop over the paths
TagFolderPos(o, opt, s, pk) ==
  IF pk <= Len(s.tagDescMap)
  THEN [s EXCEPT !.pc = "tagFolders", !.k = pk, !.i = 0, !.j = 0]
  ELSE TagOpPos(o, opt, s, 1, 1)

\* lines 355-367 and 526: tagDescMap and the root node
StartTags(o, opt, s) ==
  TagFolderPos(o, opt,
               [s EXCEPT !.tree = SetNode(NewGraph, RootId, RootRecord),
                         !.tagDescMap = ReduceTags(<<>>, DeclaredTags(o))],
               1)

\* one iteration of the loop of line 372
StepTagFolder(o, opt, s) ==
  LET t == TagFolderTree(s.tree, s.tagDescMap, s.tagDescMap[s.k].name)
  IN TagFolderPos(o, opt, [s EXCEPT !.tree = t], s.k + 1)

\* one iteration of the loop of line 394
StepTagOp(o, opt, s) ==
  LET t == TagOpTree(s.tree, s.tagDescMap, opt.includeDeprecated, o.paths[s.i].path,
                     o.paths[s.i].methods[s.j])
  IN TagOpPos(o, opt, [s EXCEPT !.tree = t], s.i, s.j + 1)

-----------------------------------------------------------------------------
(* Webhook augmenter: _generateWebhookEndpoints, lines 475-511.            *)

\* _.isEmpty(openapi.webhooks): undefined or no own key
WebhooksEmpty(o) == Len(WebhookEntries(o)) = 0

\* mutant of WebhookFolderTree: the webhook folder is never created
WebhookFolderOmitted(t, o) == t

\* lines 476-488
WebhookFolderTree(t, o) ==
  IF ~WebhooksEmpty(o)
  THEN SetEdge(SetNode(t, WebhookFolderId, WebhookFolderRecord), RootId, WebhookFolderId)
  ELSE t

\* lines 491-507: one key of one webhook item; no allow-list is applied
WebhookOpTree(t, includeDeprecated, path, entry) ==
  IF IsDeprecatedSkipped(includeDeprecated, entry.data) THEN t
  ELSE SetEdge(SetNode(t, WebhookRequestId(path, entry.method),
                       WebhookRequestRecord(path, entry.method)),
               WebhookFolderId, WebhookRequestId(path, entry.method))

\* lines 476-488, reached from line 538
StepWebhookFolder(o, opt, s) ==
  WebhookPos(o, [s EXCEPT !.tree = WebhookFolderTree(s.tree, o)], 1, 1)

\* one iteration of the loop of line 491
StepWebhookOp(o, opt, s) ==
  LET e == WebhookEntries(o)[s.i]
      t == WebhookOpTree(s.tree, opt.includeDeprecated, e.path, e.methods[s.j])
  IN WebhookPos(o, [s EXCEPT !.tree = t], s.i, s.j + 1)

-----------------------------------------------------------------------------
(* Dispatcher: module.exports, lines 521-542.                              *)

\* mutant of StepDispatch: the default branch falls back to the path strategy
DispatchDefaultsToPaths(o, opt, s) ==
  IF opt.folderStrategy = "tags" THEN StartTags(o, opt, s) ELSE StartPaths(o, opt, s)

\* lines 524-535: the switch on folderStrategy
StepDispatch(o, opt, s) ==
  IF opt.folderStrategy = "tags" THEN StartTags(o, opt, s)
  ELSE IF opt.folderStrategy = "paths" THEN StartPaths(o, opt, s)
  ELSE [s EXCEPT !.pc = "error", !.outcome = "error"]

\* line 541: return skeletonTree
StepReturn(o, opt, s) == [s EXCEPT !.pc = "done", !.outcome = "tree"]

\* the step the program takes next from control state s
Step(o, opt, s) ==
  CASE s.pc = "start" -> StepDispatch(o, opt, s)
    [] s.pc = "single" -> StepSingle(o, opt, s)
    [] s.pc = "segment" -> StepSegment(o, opt, s)
    [] s.pc = "final" -> StepFinal(o, opt, s)
    [] s.pc = "tagFolders" -> StepTagFolder(o, opt, s)
    [] s.pc = "tagOps" -> StepTagOp(o, opt, s)
    [] s.pc = "webhookFolder" -> StepWebhookFolder(o, opt, s)
    [] s.pc = "webhookOps" -> StepWebhookOp(o, opt, s)
    [] s.pc = "return" -> StepReturn(o, opt, s)
    [] OTHER -> s

RECURSIVE RunFrom(_, _, _)
\* the run to its end, from control state s
RunFrom(o, opt, s) ==
  IF s.pc \in {"done", "error"} THEN s ELSE RunFrom(o, opt, Step(o, opt, s))

\* module.exports(openapi, options): the final control state of a whole call
Generate(o, opt) == RunFrom(o, opt, StartState)

-----------------------------------------------------------------------------
(* The explored inputs.                                                    *)

\* the sequences over S of length at most n
SeqsUpTo(S, n) == UNION {[1..m -> S] : m \in 0..n}

\* an operation record: {deprecated?, tags?}
Operation(deprecated, tags) == [deprecated |-> deprecated, tags |-> tags]

\* an entry of an ordered mapping from key to operation record
Entry(method, data) == [method |-> method, data |-> data]

\* the ordered mappings over the given entries: no key twice
ItemsOver(entries) ==
  {m \in SeqsUpTo(entries, MaxKeys) :
     \A a, b \in 1..Len(m) : a # b => m[a].method # m[b].method}

\* the ordered mappings from the given names to the given items: no name twice
MappingsOver(names, items) ==
  {m \in SeqsUpTo([path : names, methods : items], MaxPaths) :
     \A a, b \in 1..Len(m) : a # b => m[a].path # m[b].path}

\* '/', '//', '/a', '/a/', '/a/b': the root path, a path without a segment,
\* two spellings of one segment list, and a path below them
SegmentedPathNames ==
  {<<"/">>, <<"/", "/">>, <<"/", "a">>, <<"/", "a", "/">>, <<"/", "a", "/", "b">>}

\* the keys of a path item: verbs, a deprecated operation, a key that is no
\* verb, and a key that Object.prototype owns
PathEntries ==
  {Entry(<<"get">>, Operation(FALSE, None)), Entry(<<"get">>, Operation(TRUE, None)),
   Entry(<<"post">>, Operation(FALSE, None)),
   Entry(<<"parameters">>, Operation(FALSE, None)),
   Entry(<<"constructor">>, Operation(FALSE, None))}

\* the specifications given to the path strategy
PathSpecifications ==
  {[paths |-> m, tags |-> None, webhooks |-> None] :
     m \in MappingsOver(SegmentedPathNames, ItemsOver(PathEntries))}

\* the valid configurations without webhooks
BaseOptions(strategy) ==
  [folderStrategy : {strategy}, includeWebhooks : {FALSE}, includeDeprecated : BOOLEAN]

\* a folderStrategy that is neither 'paths' nor 'tags': a wrong value, or none
InvalidStrategies == {"Paths", "undefined"}

\* the calls with the same specification and an invalid folderStrategy
Misconfigured(calls) ==
  {<<c[1], [c[2] EXCEPT !.folderStrategy = f]>> : c \in calls, f \in InvalidStrategies}

PathCalls == PathSpecifications \X BaseOptions("paths")

\* the tag names: '/A', '1' (an array index as an object key) and
\* '/A:/a:get', whose folder identifier is spelled like the request of tag
\* '/A' on get /a
TagNames == {<<"/", "A">>, <<"1">>, <<"/", "A", ":", "/", "a", ":", "get">>}

\* '/a' and '/A:/a': the second spells, untagged, the request of tag '/A' on
\* '/a'
TaggedPathNames == {<<"/", "a">>, <<"/", "A", ":", "/", "a">>}

\* the declared tag descriptors {name, description}
TagDescriptors ==
  {[name |-> <<"/", "A">>, description |-> Some(<<"d1">>)],
   [name |-> <<"/", "A">>, description |-> Some(<<"d2">>)],
   [name |-> <<"1">>, description |-> Some(<<"d1">>)]}

\* openapi.tags: absent, or a list of descriptors
TagDeclarations == {None} \cup {Some(d) : d \in SeqsUpTo(TagDescriptors, MaxTags)}

\* data.tags: absent, or a list of tag names
OperationTags == {None} \cup {Some(l) : l \in SeqsUpTo(TagNames, MaxTags)}

\* operations with any tags, one of them also deprecated, and an untagged post
TaggedEntries ==
  {Entry(<<"get">>, Operation(FALSE, l)) : l \in OperationTags}
    \cup {Entry(<<"get">>, Operation(TRUE, l)) : l \in {None, Some(<<<<"/", "A">>>>)}}
    \cup {Entry(<<"post">>, Operation(FALSE, None))}

\* operations with few tags, a key that is no verb
PlainEntries ==
  {Entry(<<"get">>, Operation(FALSE, l)) :
     l \in {None, Some(<<<<"/", "A">>>>), Some(<<<<"/", "A">>, <<"1">>>>)}}
    \cup {Entry(<<"parameters">>, Operation(FALSE, None))}

\* the specifications given to the tag strategy: any operations under few
\* declarations, and any declarations over few operations
TagSpecifications ==
  {[paths |-> m, tags |-> d, webhooks |-> None] :
     m \in MappingsOver(TaggedPathNames, ItemsOver(TaggedEntries)),
     d \in {None, Some(<<[name |-> <<"/", "A">>, description |-> Some(<<"d1">>)]>>)}}
    \cup
  {[paths |-> m, tags |-> d, webhooks |-> None] :
     m \in MappingsOver(TaggedPathNames, ItemsOver(PlainEntries)),
     d \in TagDeclarations}

TagCalls == TagSpecifications \X BaseOptions("tags")

\* the webhook names 'a' and 'a:x-b'
WebhookNames == {<<"a">>, <<"a", ":", "x-b">>}

\* the keys of a webhook item: a verb, a deprecated operation, a key that is
\* no verb, and the extension key 'x-b:get' (under 'a' it spells get under 'a:x-b')
WebhookItemEntries ==
  {Entry(<<"get">>, Operation(FALSE, None)), Entry(<<"get">>, Operation(TRUE, None)),
   Entry(<<"parameters">>, Operation(FALSE, None)),
   Entry(<<"x-b", ":", "get">>, Operation(FALSE, None))}

\* openapi.webhooks: absent, or an ordered mapping (which may be empty)
WebhookDeclarations ==
  {None} \cup {Some(m) : m \in MappingsOver(WebhookNames, ItemsOver(WebhookItemEntries))}

\* the path mappings under the webhook calls: none, or get /a tagged '/A'
WebhookBasePaths ==
  {<<>>,
   <<[path |-> <<"/", "a">>,
      methods |-> <<Entry(<<"get">>, Operation(FALSE, Some(<<<<"/", "A">>>>)))>>]>>}

WebhookSpecifications ==
  {[paths |-> m, tags |-> None, webhooks |-> w] :
     m \in WebhookBasePaths, w \in WebhookDeclarations}

WebhookCalls ==
  WebhookSpecifications \X
    [folderStrategy : {"paths", "tags"}, includeWebhooks : BOOLEAN,
     includeDeprecated : BOOLEAN]

\* the valid calls of module.exports that are explored: <<openapi, options>>
ValidCalls == PathCalls \cup TagCalls \cup WebhookCalls

\* the calls of module.exports that are explored
Calls == ValidCalls \cup Misconfigured(ValidCalls)

-----------------------------------------------------------------------------
(* The state machine.                                                      *)

State ==
  [pc |-> pc, i |-> i, j |-> j, k |-> k, tree |-> tree,
   tagDescMap |-> tagDescMap, outcome |-> outcome]

Becomes(s) ==
  /\ pc' = s.pc
  /\ i' = s.i
  /\ j' = s.j
  /\ k' = s.k
  /\ tree' = s.tree
  /\ tagDescMap' = s.tagDescMap
  /\ outcome' = s.outcome
  /\ UNCHANGED <<openapi, options>>

Init ==
  /\ \E c \in Calls : openapi = c[1] /\ options = c[2]
  /\ pc = StartState.pc
  /\ i = StartState.i
  /\ j = StartState.j
  /\ k = StartState.k
  /\ tree = StartState.tree
  /\ tagDescMap = StartState.tagDescMap
  /\ outcome = StartState.outcome

Dispatch == pc = "start" /\ Becomes(StepDispatch(openapi, options, State))

PathSingleOp == pc = "single" /\ Becomes(StepSingle(openapi, options, State))

PathSegment == pc = "segment" /\ Becomes(StepSegment(openapi, options, State))

PathFinalOp == pc = "final" /\ Becomes(StepFinal(openapi, options, State))

TagFolder == pc = "tagFolders" /\ Becomes(StepTagFolder(openapi, options, State))

TagOp == pc = "tagOps" /\ Becomes(StepTagOp(openapi, options, State))

WebhookFolder == pc = "webhookFolder" /\ Becomes(StepWebhookFolder(openapi, options, State))

\* mutant of WebhookOp: the keys of a webhook item are visited in no fixed order
WebhookOpAnyKey ==
  /\ pc = "webhookOps"
  /\ \E m \in 1..Len(WebhookEntries(openapi)[i].methods) :
       Becomes(StepWebhookOp(openapi, options, [State EXCEPT !.j = m]))

WebhookOp == pc = "webhookOps" /\ Becomes(StepWebhookOp(openapi, options, State))

Return == pc = "return" /\ Becomes(StepReturn(openapi, options, State))

Next ==
  \/ Dispatch
  \/ PathSingleOp
  \/ PathSegment
  \/ PathFinalOp
  \/ TagFolder
  \/ TagOp
  \/ WebhookFolder
  \/ WebhookOp
  \/ Return

Spec == Init /\ [][Next]_vars

-----------------------------------------------------------------------------
(* Vocabulary of the properties.                                           *)

Finished == pc = "done"

\* the segments a pathIdentifier was joined from
SegmentsOf(pathIdentifier) ==
  IF pathIdentifier = Slash THEN <<pathIdentifier>> ELSE SplitSlash(pathIdentifier)

\* the node a folder of the path strategy hangs from: the folder of the prefix
\* one segment shorter, or the root
ExpectedFolderParent(pathIdentifier) ==
  LET segments == SegmentsOf(pathIdentifier)
  IN IF Len(segments) = 1 THEN RootId
     ELSE PathFolderId(Join(SubSeq(segments, 1, Len(segments) - 1), Slash))

\* the pathIdentifiers of all prefixes of all declared paths
DeclaredPrefixes ==
  UNION {{PathIdentifierUpTo(PathSplit(openapi.paths[p].path), n) :
            n \in 1..Len(PathSplit(openapi.paths[p].path))} :
         p \in 1..Len(openapi.paths)}

\* the entry is an operation the filters let through: an allowed verb, not
\* deprecated unless deprecated operations are included
IsIncluded(entry) ==
  /\ entry.method \in AllowedOwnKeys
  /\ ~(entry.data.deprecated /\ ~options.includeDeprecated)

\* the children of node v
Children(t, v) == {e[2] : e \in {d \in Edges(t) : d[1] = v}}

IsFolder(t, v) == HasNode(t, v) /\ Label(t, v).type = "folder"

IsRequest(t, v) == HasNode(t, v) /\ Label(t, v).type = "request"

-----------------------------------------------------------------------------
(* C1 *)

\* C1: in the finished tree of the path strategy every Folder node is the
\* node of one declared path prefix, two Folder nodes never stand for the same
\* prefix, and each Folder node has exactly one incoming edge, which comes
\* from the folder of the prefix one segment shorter (itself a Folder node) or
\* from root:collection when the prefix is a single segment; every non-final
\* prefix of a declared path has its Folder node.
C1_FolderDeduplication ==
  (Finished /\ options.folderStrategy = "paths") =>
    LET folders == NodesOfType(tree, "folder")
        pid(f) == Label(tree, f).meta.pathIdentifier
    IN /\ \A f \in folders :
            /\ f = PathFolderId(pid(f))
            /\ pid(f) \in DeclaredPrefixes
            /\ InEdges(tree, f) = {<<ExpectedFolderParent(pid(f)), f>>}
            /\ \/ ExpectedFolderParent(pid(f)) = RootId
               \/ ExpectedFolderParent(pid(f)) \in folders
       /\ \A f, g \in folders : pid(f) = pid(g) => f = g
       /\ Cardinality(folders) <= Cardinality(DeclaredPrefixes)
       /\ \A p \in 1..Len(openapi.paths) :
            LET pathSplit == PathSplit(openapi.paths[p].path)
            IN \A n \in 1..(Len(pathSplit) - 1) :
                 PathFolderId(PathIdentifierUpTo(pathSplit, n)) \in folders

\* two declared paths share the folder of 'a': it holds a request of its own
\* and the folder of 'a/b'
C1_Witness ==
  /\ Finished
  /\ options.folderStrategy = "paths"
  /\ Len(openapi.paths) = 2
  /\ IsFolder(tree, PathFolderId(<<"a">>))
  /\ PathFolderId(<<"a", "/", "b">>) \in Children(tree, PathFolderId(<<"a">>))
  /\ PathRequestId(<<"a">>, <<"get">>) \in Children(tree, PathFolderId(<<"a">>))
  /\ IsRequest(tree, PathRequestId(<<"a", "/", "b">>, <<"get">>))

-----------------------------------------------------------------------------
(* C2 *)

\* the request of the entry of declared path p is in the tree, under the
\* folder of the whole path and under nothing else
RequestPlaced(p, entry) ==
  LET pathSplit == PathSplit(openapi.paths[p].path)
      pathIdentifier == PathIdentifierUpTo(pathSplit, Len(pathSplit))
      request == PathRequestId(pathIdentifier, entry.method)
  IN /\ IsRequest(tree, request)
     /\ Label(tree, request).meta.pathIdentifier = pathIdentifier
     /\ Label(tree, request).meta.method = entry.method
     /\ IsFolder(tree, PathFolderId(pathIdentifier))
     /\ InEdges(tree, request) = {<<PathFolderId(pathIdentifier), request>>}

\* C2: in the finished tree of the path strategy, for every declared path and
\* every included operation under it (an allowed verb, not filtered as
\* deprecated), the Request node keyed by (pathIdentifier of the whole path,
\* verb) exists and its only incoming edge comes from the Folder node of that
\* pathIdentifier.
C2_RequestPlacement ==
  (Finished /\ options.folderStrategy = "paths") =>
    \A p \in 1..Len(openapi.paths) :
      \A m \in 1..Len(openapi.paths[p].methods) :
        IsIncluded(openapi.paths[p].methods[m]) =>
          RequestPlaced(p, openapi.paths[p].methods[m])

-----------------------------------------------------------------------------
(* C3 *)

\* the included operations of the specification, as <<path index, key index>>
IncludedOperations ==
  {op \in UNION {{<<p, m>> : m \in 1..Len(openapi.paths[p].methods)} :
                 p \in 1..Len(openapi.paths)} :
     IsIncluded(openapi.paths[op[1]].methods[op[2]])}

OperationPath(op) == openapi.paths[op[1]].path

OperationEntry(op) == openapi.paths[op[1]].methods[op[2]]

\* the tags an operation declares
TagsOf(op) ==
  IF HasTags(OperationEntry(op).data) THEN Range(OperationEntry(op).data.tags[1]) ELSE {}

\* C3: in the finished tree of the tag strategy, an included operation on
\* path P with method M that declares N distinct tags has N Request nodes, one
\* per tag T, keyed by (T, P, M) with meta.tag = T; each has exactly one
\* incoming edge, from the Folder node of T; no Request node has two parents.
C3_TagFanOut ==
  (Finished /\ options.folderStrategy = "tags") =>
    /\ \A op \in IncludedOperations :
         LET P == OperationPath(op)
             M == OperationEntry(op).method
         IN /\ Cardinality({TagRequestId(T, P, M) : T \in TagsOf(op)})
                 = Cardinality(TagsOf(op))
            /\ \A T \in TagsOf(op) :
                 /\ IsRequest(tree, TagRequestId(T, P, M))
                 /\ Label(tree, TagRequestId(T, P, M)).meta
                      = [tag |-> T, path |-> P, method |-> M]
                 /\ IsFolder(tree, TagFolderId(T))
                 /\ InEdges(tree, TagRequestId(T, P, M))
                      = {<<TagFolderId(T), TagRequestId(T, P, M)>>}
    /\ \A r \in NodesOfType(tree, "request") : Cardinality(InEdges(tree, r)) <= 1

-----------------------------------------------------------------------------
(* C4 *)

\* the ordered mapping with every operation given to f, which returns the
\* operations that replace it (none, or one)
RewriteItems(items, f(_)) ==
  [n \in 1..Len(items) |->
     [path |-> items[n].path,
      methods |-> LET RECURSIVE Over(_)
                      Over(es) == IF Len(es) = 0 THEN <<>>
                                  ELSE f(es[1]) \o Over(Tail(es))
                  IN Over(items[n].methods)]]

\* the specification with every operation of its paths and webhooks rewritten
Rewritten(o, f(_)) ==
  [o EXCEPT !.paths = RewriteItems(@, f),
            !.webhooks = IF @ = None THEN None ELSE Some(RewriteItems(@[1], f))]

\* the same input with the deprecated flag removed from every operation
WithoutDeprecatedFlag(o) ==
  Rewritten(o, LAMBDA e : <<[e EXCEPT !.data.deprecated = FALSE]>>)

\* the same input without its deprecated operations
WithoutDeprecatedOperations(o) ==
  Rewritten(o, LAMBDA e : IF e.data.deprecated THEN <<>> ELSE <<e>>)

\* C4: with includeDeprecated false the finished tree is the tree of the same
\* input without its deprecated operations (they produce no node and no
\* edge); with includeDeprecated true it is the tree of the same input with
\* the deprecated flag removed: same identifiers, records, edges and order.
\* This covers the path strategy, the tag strategy and the webhook augmenter.
C4_DeprecationFilter ==
  (Finished /\ options.folderStrategy \in {"paths", "tags"}) =>
    IF options.includeDeprecated
    THEN View(tree) = View(Generate(WithoutDeprecatedFlag(openapi), options).tree)
    ELSE View(tree) = View(Generate(WithoutDeprecatedOperations(openapi), options).tree)

\* a deprecated operation was included: its request is in the finished tree
C4_Witness ==
  /\ Finished
  /\ options.folderStrategy = "paths"
  /\ options.includeDeprecated
  /\ \E p \in 1..Len(openapi.paths) :
       /\ openapi.paths[p].path = <<"/", "a", "/", "b">>
       /\ \E m \in 1..Len(openapi.paths[p].methods) :
            /\ openapi.paths[p].methods[m].data.deprecated
            /\ openapi.paths[p].methods[m].method = <<"get">>
  /\ IsRequest(tree, PathRequestId(<<"a", "/", "b">>, <<"get">>))

-----------------------------------------------------------------------------
(* C5 *)

\* the same input without the keys of its path items that are no allowed verb
WithoutDisallowedKeys(o) ==
  [o EXCEPT !.paths =
     RewriteItems(@, LAMBDA e : IF e.method \in AllowedOwnKeys THEN <<e>> ELSE <<>>)]

\* C5: under both strategies the finished tree equals the tree of the same
\* input with every key removed that is none of get, head, post, put, patch,
\* delete, connect, options, trace: such a key yields no node and no edge.
C5_MethodAllowList ==
  (Finished /\ options.folderStrategy \in {"paths", "tags"}) =>
    View(tree) = View(Generate(WithoutDisallowedKeys(openapi), options).tree)

-----------------------------------------------------------------------------
(* C6 *)

-----------------------------------------------------------------------------
(* C7 *)

\* C7: in the finished tree of the tag strategy every declared tag has a
\* Folder node whose one incoming edge comes from root:collection; every tag
\* an included operation references has a Folder node attached to
\* root:collection; every parent of a Request node is root:collection or a
\* Folder node.
C7_TagFolders ==
  (Finished /\ options.folderStrategy = "tags") =>
    /\ \A d \in Range(DeclaredTags(openapi)) :
         /\ IsFolder(tree, TagFolderId(d.name))
         /\ InEdges(tree, TagFolderId(d.name)) = {<<RootId, TagFolderId(d.name)>>}
    /\ \A op \in IncludedOperations :
         \A T \in TagsOf(op) :
           /\ IsFolder(tree, TagFolderId(T))
           /\ <<RootId, TagFolderId(T)>> \in Edges(tree)
    /\ \A e \in Edges(tree) :
         IsRequest(tree, e[2]) => (e[1] = RootId \/ IsFolder(tree, e[1]))

-----------------------------------------------------------------------------
(* C8 *)

\* the webhook operations that are not filtered as deprecated
IncludedWebhookOperations ==
  {op \in UNION {{<<h, m>> : m \in 1..Len(WebhookEntries(openapi)[h].methods)} :
                 h \in 1..Len(WebhookEntries(openapi))} :
     ~IsDeprecatedSkipped(options.includeDeprecated,
                          WebhookEntries(openapi)[op[1]].methods[op[2]].data)}

\* the identifier of the request of a webhook operation
WebhookRequestOf(op) ==
  WebhookRequestId(WebhookEntries(openapi)[op[1]].path,
                   WebhookEntries(openapi)[op[1]].methods[op[2]].method)

\* the tree the base strategy alone builds from the same input
BaseTree == View(Generate(openapi, [options EXCEPT !.includeWebhooks = FALSE]).tree)

\* C8: with includeWebhooks and non-empty webhook definitions the finished
\* tree has exactly one WebhookFolder node, whose one incoming edge comes from
\* root:collection, and exactly one WebhookRequest node per (webhook name,
\* verb) that is not filtered as deprecated, each with one incoming edge, from
\* the webhook folder; otherwise it has no WebhookFolder and no WebhookRequest
\* node and equals the tree of the base strategy.
C8_WebhookAugmenter ==
  (Finished /\ options.folderStrategy \in {"paths", "tags"}) =>
    IF options.includeWebhooks /\ ~WebhooksEmpty(openapi)
    THEN /\ NodesOfType(tree, "webhook~folder") = {WebhookFolderId}
         /\ InEdges(tree, WebhookFolderId) = {<<RootId, WebhookFolderId>>}
         /\ Cardinality(NodesOfType(tree, "webhook~request"))
              = Cardinality(IncludedWebhookOperations)
         /\ \A op \in IncludedWebhookOperations :
              /\ WebhookRequestOf(op) \in NodesOfType(tree, "webhook~request")
              /\ InEdges(tree, WebhookRequestOf(op))
                   = {<<WebhookFolderId, WebhookRequestOf(op)>>}
    ELSE /\ NodesOfType(tree, "webhook~folder") = {}
         /\ NodesOfType(tree, "webhook~request") = {}
         /\ View(tree) = BaseTree

-----------------------------------------------------------------------------
(* C9 *)

RECURSIVE Closure(_, _)
\* the nodes reachable along directed edges from the nodes of `seen`
Closure(t, seen) ==
  LET more == seen \cup UNION {Children(t, v) : v \in seen}
  IN IF more = seen THEN seen ELSE Closure(t, more)

\* C9: in the finished tree root:collection is the only node of kind
\* Collection and has no incoming edge; no edge is a self-loop and no node
\* reaches itself; every other node has an incoming edge and is reachable
\* from root:collection.
C9_RootedTree ==
  (Finished /\ options.folderStrategy \in {"paths", "tags"}) =>
    /\ NodesOfType(tree, "collection") = {RootId}
    /\ InEdges(tree, RootId) = {}
    /\ \A e \in Edges(tree) : e[1] # e[2]
    /\ \A v \in Nodes(tree) : v \notin Closure(tree, Children(tree, v))
    /\ \A v \in Nodes(tree) \ {RootId} : InEdges(tree, v) # {}
    /\ Closure(tree, {RootId}) = Nodes(tree)

\* a finished tree of the tag strategy with a folder made by the safeguard, a
\* request below it, and the webhook folder with a request
C9_Witness ==
  /\ Finished
  /\ options.folderStrategy = "tags"
  /\ DeclaredTags(openapi) = <<>>
  /\ IsFolder(tree, TagFolderId(<<"/", "A">>))
  /\ Children(tree, TagFolderId(<<"/", "A">>)) # {}
  /\ Children(tree, WebhookFolderId) # {}

-----------------------------------------------------------------------------
(* C10 *)

\* C10: in the finished tree of the tag strategy an included operation on
\* path P with method M that has no tags (absent or empty) has the Request
\* node keyed by (P, M), whose only incoming edge comes from root:collection.
C10_UntaggedOperations ==
  (Finished /\ options.folderStrategy = "tags") =>
    \A op \in IncludedOperations :
      TagsOf(op) = {} =>
        LET r == UntaggedRequestId(OperationPath(op), OperationEntry(op).method)
        IN /\ IsRequest(tree, r)
           /\ Label(tree, r).meta
                = [path |-> OperationPath(op), method |-> OperationEntry(op).method]
           /\ InEdges(tree, r) = {<<RootId, r>>}

-----------------------------------------------------------------------------
(* C11 *)

\* what a caller can observe of a control state: the outcome and the graph
Observed(s) == [outcome |-> s.outcome, tree |-> View(s.tree)]

-----------------------------------------------------------------------------
(* C12 *)

\* sequence a is the beginning of sequence b
IsPrefix(a, b) == Len(a) <= Len(b) /\ SubSeq(b, 1, Len(a)) = a

\* the specification declared up to key m of path p: the paths before p whole,
\* path p with its first m keys
DeclaredUpTo(o, p, m) ==
  [o EXCEPT !.paths =
     [n \in 1..p |->
        IF n < p THEN o.paths[n]
        ELSE [path |-> o.paths[p].path, methods |-> SubSeq(o.paths[p].methods, 1, m)]]]

RECURSIVE DistinctNames(_, _)
\* the names of the declared tags in declaration order, each at its first
\* occurrence
DistinctNames(tags, seen) ==
  IF Len(tags) = 0 THEN <<>>
  ELSE IF tags[1].name \in seen THEN DistinctNames(Tail(tags), seen)
       ELSE <<tags[1].name>> \o DistinctNames(Tail(tags), seen \cup {tags[1].name})

\* the graph the base strategy alone inserts for specification o
BaseGraph(o) == Generate(o, [options EXCEPT !.includeWebhooks = FALSE]).tree

\* C12: nodes and edges are inserted in declaration order.  root:collection
\* is the first node; under the tag strategy the folders of the declared tags
\* follow it in tag-declaration order, before any request node; what the base
\* strategy inserts for the specification declared up to any key of any path
\* is the beginning of what it inserts for the whole specification (paths in
\* declared order, verbs in declared order within a path); and the webhook
\* nodes come after every node of the base strategy.
C12_CreationOrder ==
  (Finished /\ options.folderStrategy \in {"paths", "tags"}) =>
    LET base == BaseGraph(openapi)
        declared == DistinctNames(DeclaredTags(openapi), {})
    IN /\ tree.order[1] = RootId
       /\ options.folderStrategy = "tags" =>
            /\ Len(base.order) >= 1 + Len(declared)
            /\ \A n \in 1..Len(declared) : base.order[n + 1] = TagFolderId(declared[n])
       /\ \A p \in 1..Len(openapi.paths) :
            \A m \in 0..Len(openapi.paths[p].methods) :
              /\ IsPrefix(BaseGraph(DeclaredUpTo(openapi, p, m)).order, base.order)
              /\ IsPrefix(BaseGraph(DeclaredUpTo(openapi, p, m)).edges, base.edges)
       /\ IsPrefix(base.order, tree.order)
       /\ IsPrefix(base.edges, tree.edges)
       /\ \A n \in 1..Len(tree.order) :
            n > Len(base.order) =>
              tree.label[n].type \in {"webhook~folder", "webhook~request"}

-----------------------------------------------------------------------------
(* C13 *)

\* the same input without the keys of its webhook items that are no allowed verb
WithoutDisallowedWebhookKeys(o) ==
  [o EXCEPT !.webhooks =
     IF @ = None THEN None
     ELSE Some(RewriteItems(@[1], LAMBDA e :
                 IF e.method \in AllowedOwnKeys THEN <<e>> ELSE <<>>))]

\* C13: a key of a webhook item that is none of get, head, post, put, patch,
\* delete, connect, options, trace is skipped by the webhook augmenter without
\* an error: the call does not throw, and the finished tree is the tree of
\* the same input without such keys (no WebhookRequest node and no edge for
\* them).
C13_WebhookDisallowedVerbs ==
  (options.folderStrategy \in {"paths", "tags"}) =>
    /\ pc # "error"
    /\ Finished =>
         View(tree) = View(Generate(WithoutDisallowedWebhookKeys(openapi), options).tree)

-----------------------------------------------------------------------------
(* C14 *)

\* the first descriptor of the declared tag list with the given name
FirstDeclared(name) ==
  DeclaredTags(openapi)[CHOOSE n \in 1..Len(DeclaredTags(openapi)) :
                          /\ DeclaredTags(openapi)[n].name = name
                          /\ \A m \in 1..(n - 1) : DeclaredTags(openapi)[m].name # name]

\* C14: in the finished tree of the tag strategy every declared tag name,
\* also one declared more than once with different descriptions, has exactly
\* one Folder node, and its meta.description is the description of the first
\* occurrence of the name in the declared tag list.
C14_FirstDescriptionWins ==
  (Finished /\ options.folderStrategy = "tags") =>
    \A d \in Range(DeclaredTags(openapi)) :
      /\ {v \in NodesOfType(tree, "folder") : Label(tree, v).meta.name = d.name}
           = {TagFolderId(d.name)}
      /\ Label(tree, TagFolderId(d.name)).meta.description
           = FirstDeclared(d.name).description

-----------------------------------------------------------------------------
(* C15 *)

\* the positions in the call log of the setNode calls on identifier v
NodeWrites(t, v) ==
  {n \in 1..Len(t.calls) : t.calls[n].op = "setNode" /\ t.calls[n].v = v}

\* the positions in the call log of the setEdge calls on the pair (v, w)
EdgeWrites(t, v, w) ==
  {n \in 1..Len(t.calls) :
     t.calls[n].op = "setEdge" /\ t.calls[n].v = v /\ t.calls[n].w = w}

\* C15: in every state of the construction, under either strategy and the
\* webhook augmenter, every node has received exactly one setNode call and
\* every edge exactly one setEdge call: no step writes a record to an
\* identifier that is already in the store.
C15_CreateOnce ==
  /\ \A v \in Nodes(tree) : Cardinality(NodeWrites(tree, v)) = 1
  /\ \A e \in Edges(tree) : Cardinality(EdgeWrites(tree, e[1], e[2])) = 1

-----------------------------------------------------------------------------
(* C16 *)

\* a logical node: its kind, the position it stands for, and its identifier
Logical(kind, key, id) == [kind |-> kind, key |-> key, id |-> id]

\* the keys of an item that pass the filters of a strategy
PassingKeys(item) ==
  {e \in Range(item.methods) :
     IsAllowedMethod(e.method) /\ ~IsDeprecatedSkipped(options.includeDeprecated, e.data)}

\* the logical nodes the path strategy makes for one declared path: a folder
\* per non-final prefix; a folder and the requests of the full pathIdentifier
\* when a key passes the filters
PathLogicalNodes(item) ==
  LET pathSplit == PathSplit(item.path)
      whole == PathIdentifierUpTo(pathSplit, Len(pathSplit))
  IN IF Len(pathSplit) = 0 THEN {}
     ELSE {Logical("folder", <<PathIdentifierUpTo(pathSplit, n)>>,
                   PathFolderId(PathIdentifierUpTo(pathSplit, n))) :
             n \in 1..(Len(pathSplit) - 1)}
          \cup {Logical("folder", <<whole>>, PathFolderId(whole)) : e \in PassingKeys(item)}
          \cup {Logical("request", <<whole, e.method>>, PathRequestId(whole, e.method)) :
                  e \in PassingKeys(item)}

\* the logical nodes the tag strategy makes for one declared path
TagLogicalNodes(item) ==
  UNION {IF HasTags(e.data)
         THEN UNION {{Logical("folder", <<T>>, TagFolderId(T)),
                      Logical("request", <<T, item.path, e.method>>,
                              TagRequestId(T, item.path, e.method))} :
                     T \in Range(e.data.tags[1])}
         ELSE {Logical("request", <<item.path, e.method>>,
                       UntaggedRequestId(item.path, e.method))} :
         e \in PassingKeys(item)}

\* the logical nodes of the webhook augmenter
WebhookLogicalNodes ==
  IF ~options.includeWebhooks \/ WebhooksEmpty(openapi) THEN {}
  ELSE {Logical("webhook~folder", <<>>, WebhookFolderId)}
       \cup UNION {{Logical("webhook~request", <<item.path, e.method>>,
                            WebhookRequestId(item.path, e.method)) :
                      e \in {x \in Range(item.methods) :
                               ~IsDeprecatedSkipped(options.includeDeprecated, x.data)}} :
                   item \in Range(WebhookEntries(openapi))}

\* the logical nodes of the call: kind and position of every node it makes
LogicalNodes ==
  {Logical("collection", <<>>, RootId)}
    \cup (IF options.folderStrategy = "paths"
          THEN UNION {PathLogicalNodes(item) : item \in Range(openapi.paths)}
          ELSE {Logical("folder", <<d.name>>, TagFolderId(d.name)) :
                  d \in Range(DeclaredTags(openapi))}
               \cup UNION {TagLogicalNodes(item) : item \in Range(openapi.paths)})
    \cup WebhookLogicalNodes

\* C16: in the finished tree the node identifiers are those of the logical
\* nodes of the call, and two distinct logical nodes (different kind, or
\* different tag, path, verb or webhook name) never have the same identifier:
\* tag folders, tagged requests and untagged requests never coincide, and a
\* webhook identifier never coincides with one of the base strategy.
C16_IdentifierUniqueness ==
  (Finished /\ options.folderStrategy \in {"paths", "tags"}) =>
    /\ Nodes(tree) = {a.id : a \in LogicalNodes}
    /\ \A a, b \in LogicalNodes : a.id = b.id => a = b

-----------------------------------------------------------------------------
(* C17 *)

\* whether the declared path at position p has an included operation: an
\* allowed verb that is not filtered as deprecated
HasIncludedOperation(p) ==
  \E m \in 1..Len(openapi.paths[p].methods) : IsIncluded(openapi.paths[p].methods[m])

\* C17: in the finished tree of the path strategy every non-final prefix of
\* every declared path, also of a path whose operations are all excluded, has
\* a Folder node linked to the folder of the shorter prefix (or to
\* root:collection); and a Folder node exists only for a pathIdentifier that
\* some declared path uses as a non-final prefix, or at which some declared
\* path contributes an included operation.
C17_FilteredPathFolders ==
  (Finished /\ options.folderStrategy = "paths") =>
    /\ \A p \in 1..Len(openapi.paths) :
         LET pathSplit == PathSplit(openapi.paths[p].path)
         IN \A n \in 1..(Len(pathSplit) - 1) :
              LET prefix == PathIdentifierUpTo(pathSplit, n)
              IN /\ IsFolder(tree, PathFolderId(prefix))
                 /\ <<ExpectedFolderParent(prefix), PathFolderId(prefix)>> \in Edges(tree)
    /\ \A v \in NodesOfType(tree, "folder") :
         \E p \in 1..Len(openapi.paths) :
           LET pathSplit == PathSplit(openapi.paths[p].path)
           IN \E n \in 1..Len(pathSplit) :
                /\ v = PathFolderId(PathIdentifierUpTo(pathSplit, n))
                /\ n < Len(pathSplit) \/ HasIncludedOperation(p)

-----------------------------------------------------------------------------
(* C18 *)

\* every node of the store has a record: no setEdge had to create an end point
EveryNodeHasRecord(t) == \A v \in Nodes(t) : Label(t, v) # NoLabel

\* the identifiers of the folders of the declared tags
DeclaredFolderIds == {TagFolderId(d.name) : d \in Range(DeclaredTags(openapi))}

SafeguardEdges ==
  IF options.folderStrategy # "tags" THEN {}
  ELSE {e \in UNION {UNION {{<<TagFolderId(T), TagRequestId(T, item.path, x.method)>> :
                              T \in (IF HasTags(x.data) THEN Range(x.data.tags[1]) ELSE {})} :
                            x \in PassingKeys(item)} :
                     item \in Range(openapi.paths)} :
          e[1] \notin DeclaredFolderIds}

====
